---- MODULE Spec2Model ----
(***************************************************************************)
(* Model of power_grid_model::meta_data::DatasetHandler                    *)
(* (auxiliary/dataset_handler.hpp): one handler object, its                *)
(* DatasetDescription and its buffer vector, driven by calls of the        *)
(* constructor, add_component_info, add_buffer and set_buffer.             *)
(***************************************************************************)
EXTENDS Integers, Sequences, FiniteSets, TLC

VARIABLES
    phase,          \* "unconstructed" | "constructed" | "failed" (constructor threw)
    variant,        \* which alias of DatasetHandler<data_mutable, indptr_mutable>
    description_,   \* DatasetDescription description_
    buffers_,       \* std::vector<Buffer> buffers_
    last,           \* the call whose outcome the caller has not yet handled
    overlay         \* a columnar component: its layout and the caller's columns

vars == <<phase, variant, description_, buffers_, last, overlay>>

(***************************************************************************)
(* Bounds of the inputs the calls are tried with.                          *)
(***************************************************************************)
MaxBatch == 2
MaxEps == 1
MaxTotal == 1
\* longest columnar component (records)
MaxLen == 4

\* batch_size arguments tried by the constructor (Idx is signed)
BatchSizes == (0 - 1)..MaxBatch
\* elements_per_scenario arguments: uniform (>= 0) and ragged (-1)
EpsArgs == (0 - 1)..MaxEps
\* total_elements arguments
TotalArgs == 0..MaxTotal

(***************************************************************************)
(* The aliases of the handler template and the schema registry.            *)
(***************************************************************************)
Variants == {"Const", "Mutable", "Writable"}

\* dataset kinds known to meta_data(), and one name that is not registered
DatasetNames == {"input"}
DatasetArgs == DatasetNames \cup {"no_such_dataset"}

\* components known to every dataset kind, and one name that is not registered
ComponentNames == {"A", "B"}
ComponentArgs == ComponentNames \cup {"unknown"}

\* whether MetaData::get_dataset / MetaDataset::get_component finds no entry of
\* that name and throws; the exception is the registry's own, not DatasetError
get_dataset_throws(dataset) == dataset \notin DatasetNames
get_component_throws(component) == component \notin ComponentNames

(***************************************************************************)
(* Caller-owned memory.  Pointers are opaque addresses; the handler keeps  *)
(* the address, never a copy.  NULL is the null pointer.                   *)
(***************************************************************************)
NULL == "nullptr"

\* void* data arguments
DataArgs == {NULL, "data1"}

\* Idx* indptr arguments: three caller arrays of batch_size + 1 entries each
IndptrPtrs == {"ip_mono", "ip_first1", "ip_peak"}
IndptrArgs == {NULL} \cup IndptrPtrs

\* contents of the caller's offset-index arrays for a handler of batch size b
\* (M = MaxTotal):
\*   ip_mono   0, ..., 0, M        non-decreasing from 0 to M
\*   ip_first1 1, ..., 1, M        does not begin with 0
\*   ip_peak   0, M+1, ..., M+1, 0 begins and ends with 0; its interior lies
\*                               above every total_elements and decreases to
\*                               the last entry
\* (for b = 0 the single entry is the first one)
IndptrMem(p, b) ==
    [i \in 0..b |->
        CASE p = "ip_mono"   -> IF i = b /\ b > 0 THEN MaxTotal ELSE 0
          [] p = "ip_first1" -> IF i = b /\ b > 0 THEN MaxTotal ELSE 1
          [] p = "ip_peak"   -> IF i = 0 \/ i = b THEN 0 ELSE MaxTotal + 1]

\* values an out-of-bounds read of an Idx array may yield
WildIdx == (0 - 1)..(MaxTotal + 1)

\* indptr[i] for a caller array of b + 1 entries; outside it the read is undefined
ReadIndptr(p, b, i) ==
    IF i \in 0..b THEN {IndptrMem(p, b)[i]} ELSE WildIdx

(***************************************************************************)
(* Value constructors.                                                     *)
(***************************************************************************)
ComponentInfo(component, elements_per_scenario, total_elements) ==
    [component |-> component,
     elements_per_scenario |-> elements_per_scenario,
     total_elements |-> total_elements]

\* std::span<Indptr>: {pointer, size}; the default span is {nullptr, 0}
EmptySpan == [ptr |-> NULL, size |-> 0]
Span(ptr, size) == [ptr |-> ptr, size |-> size]

\* Buffer{}: value-initialised
EmptyBuffer == [data |-> NULL, indptr |-> EmptySpan]

\* a call with its arguments and the way it ended: "ok", "DatasetError" (thrown)
\* or "LookupError" (thrown by the schema registry).  flag is the bool argument
\* of the calls that take one (is_batch, throw_not_found) and value is what a
\* call that returns something returned.
Call(op, component, eps, total, indptr, data, result) ==
    [op |-> op, component |-> component, elements_per_scenario |-> eps,
     total_elements |-> total, indptr |-> indptr, data |-> data, result |-> result,
     flag |-> FALSE, value |-> NULL]

NoCall == Call("none", NULL, 0, 0, NULL, NULL, "none")

(***************************************************************************)
(* Accessors.                                                              *)
(***************************************************************************)
is_batch == description_.is_batch
batch_size == description_.batch_size
component_info == description_.component_info
n_components == Len(buffers_)

\* find_component that looks at the most recently attached component only
find_component_back(component) ==
    IF Len(component_info) > 0
       /\ component_info[Len(component_info)].component = component
    THEN Len(component_info) - 1
    ELSE 0 - 1

\* index (0-based) of the first ComponentInfo named `component`, or -1
find_component(component) ==
    IF \E i \in 1..Len(component_info) : component_info[i].component = component
    THEN (CHOOSE i \in 1..Len(component_info) :
              /\ component_info[i].component = component
              /\ \A j \in 1..(i - 1) : component_info[j].component # component) - 1
    ELSE 0 - 1

(***************************************************************************)
(* Layout validation.                                                      *)
(***************************************************************************)
\* check_uniform_integrity with > in place of >= in the layout test
check_uniform_integrity_throws_positive(elements_per_scenario, total_elements) ==
    /\ elements_per_scenario > 0
    /\ elements_per_scenario * batch_size # total_elements

\* check_uniform_integrity that also refuses a negative total_elements and an
\* elements_per_scenario below -1
check_uniform_integrity_throws_signs(elements_per_scenario, total_elements) ==
    \/ elements_per_scenario < 0 - 1
    \/ total_elements < 0
    \/ /\ elements_per_scenario >= 0
       /\ elements_per_scenario * batch_size # total_elements

\* whether check_uniform_integrity throws DatasetError
check_uniform_integrity_throws(elements_per_scenario, total_elements) ==
    /\ elements_per_scenario >= 0
    /\ elements_per_scenario * batch_size # total_elements

\* check_non_uniform_integrity without the else branch (lines 140-144)
check_non_uniform_integrity_no_else(check_indptr_content, elements_per_scenario, total_elements, indptr) ==
    IF elements_per_scenario < 0
    THEN IF indptr = NULL
         THEN {"DatasetError"}
         ELSE IF check_indptr_content
              THEN {IF rd[1] # 0 \/ rd[2] # total_elements THEN "DatasetError" ELSE "ok" :
                        rd \in ReadIndptr(indptr, batch_size, 0)
                                   \X ReadIndptr(indptr, batch_size, batch_size)}
              ELSE {"ok"}
    ELSE {"ok"}

\* check_non_uniform_integrity that tests indptr[0] only
check_non_uniform_integrity_first_only(check_indptr_content, elements_per_scenario, total_elements, indptr) ==
    IF elements_per_scenario < 0
    THEN IF indptr = NULL
         THEN {"DatasetError"}
         ELSE IF check_indptr_content
              THEN {IF first # 0 THEN "DatasetError" ELSE "ok" :
                        first \in ReadIndptr(indptr, batch_size, 0)}
              ELSE {"ok"}
    ELSE IF indptr # NULL THEN {"DatasetError"} ELSE {"ok"}

\* check_non_uniform_integrity that also requires a non-decreasing offset index
check_non_uniform_integrity_monotone(check_indptr_content, elements_per_scenario, total_elements, indptr) ==
    IF elements_per_scenario < 0
    THEN IF indptr = NULL
         THEN {"DatasetError"}
         ELSE IF check_indptr_content
              THEN {IF \/ rd[1] # 0
                       \/ rd[2] # total_elements
                       \/ \E i \in 0..(batch_size - 1) :
                              IndptrMem(indptr, batch_size)[i]
                                  > IndptrMem(indptr, batch_size)[i + 1]
                    THEN "DatasetError" ELSE "ok" :
                        rd \in ReadIndptr(indptr, batch_size, 0)
                                   \X ReadIndptr(indptr, batch_size, batch_size)}
              ELSE {"ok"}
    ELSE IF indptr # NULL THEN {"DatasetError"} ELSE {"ok"}

\* check_non_uniform_integrity that tests indptr[batch_size()] only
check_non_uniform_integrity_end_only(check_indptr_content, elements_per_scenario, total_elements, indptr) ==
    IF elements_per_scenario < 0
    THEN IF indptr = NULL
         THEN {"DatasetError"}
         ELSE IF check_indptr_content
              THEN {IF end # total_elements THEN "DatasetError" ELSE "ok" :
                        end \in ReadIndptr(indptr, batch_size, batch_size)}
              ELSE {"ok"}
    ELSE IF indptr # NULL THEN {"DatasetError"} ELSE {"ok"}

\* The ways check_non_uniform_integrity can end ("ok", "DatasetError"): a set,
\* because the content check reads indptr[0] and indptr[batch_size()] of the
\* caller's array, which is undefined outside the array.
check_non_uniform_integrity(check_indptr_content, elements_per_scenario, total_elements, indptr) ==
    IF elements_per_scenario < 0
    THEN IF indptr = NULL
         THEN {"DatasetError"}
         ELSE IF check_indptr_content
              THEN {IF rd[1] # 0 \/ rd[2] # total_elements THEN "DatasetError" ELSE "ok" :
                        rd \in ReadIndptr(indptr, batch_size, 0)
                                   \X ReadIndptr(indptr, batch_size, batch_size)}
              ELSE {"ok"}
    ELSE IF indptr # NULL THEN {"DatasetError"} ELSE {"ok"}

\* the buffer written for the arguments (lines 97-102 and 109-114)
StoredBuffer(indptr, data) ==
    [data |-> data,
     indptr |-> IF indptr # NULL THEN Span(indptr, batch_size + 1) ELSE EmptySpan]

(***************************************************************************)
(* Initial state: no handler yet.                                          *)
(***************************************************************************)
NoDescription ==
    [is_batch |-> FALSE, batch_size |-> 0, dataset |-> NULL, component_info |-> <<>>]

\* no columnar component
NoOverlay ==
    [batch_size |-> 0, elements_per_scenario |-> 0, attributes |-> {}, memory |-> <<>>]

Init ==
    /\ phase = "unconstructed"
    /\ variant \in Variants
    /\ description_ = NoDescription
    /\ buffers_ = <<>>
    /\ last = NoCall
    /\ overlay = NoOverlay

(***************************************************************************)
(* DatasetHandler(bool is_batch, Idx batch_size, std::string_view dataset) *)
(***************************************************************************)
\* the constructor's test with > in place of !=
constructor_throws_above(ib, bs) == ~ib /\ bs > 1

\* whether the constructor body throws DatasetError (lines 51-53)
constructor_throws(ib, bs) == ~ib /\ bs # 1

\* the constructor call as the caller sees it: dataset name in component,
\* batch_size in total_elements, is_batch in flag
ConstructCall(ib, bs, dataset, result) ==
    [Call("construct", dataset, 0, bs, NULL, NULL, result) EXCEPT !.flag = ib]

Construct(ib, bs, dataset) ==
    /\ phase = "unconstructed"
    /\ last = NoCall
    /\ UNCHANGED <<variant, buffers_, overlay>>
    /\ IF get_dataset_throws(dataset)
       THEN \* meta_data().get_dataset(dataset) throws in the member initialiser
            /\ phase' = "failed"
            /\ last' = ConstructCall(ib, bs, dataset, "LookupError")
            /\ UNCHANGED description_
       ELSE IF constructor_throws(ib, bs)
       THEN /\ phase' = "failed"
            /\ last' = ConstructCall(ib, bs, dataset, "DatasetError")
            /\ UNCHANGED description_
       ELSE /\ phase' = "constructed"
            /\ description_' = [is_batch |-> ib, batch_size |-> bs,
                                dataset |-> dataset, component_info |-> <<>>]
            /\ last' = ConstructCall(ib, bs, dataset, "ok")

(***************************************************************************)
(* The three operations as functions of the current state: what each      *)
(* leaves in description_.component_info and in buffers_, and how it ends. *)
(* add_buffer and set_buffer yield the set of their possible outcomes.     *)
(***************************************************************************)
Outcome(infos, buffers, result) ==
    [component_info |-> infos, buffers |-> buffers, result |-> result]

\* add_component_info that inserts at the front of both vectors
add_component_info_front(component, elements_per_scenario, total_elements) ==
    IF find_component(component) >= 0
    THEN Outcome(component_info, buffers_, "DatasetError")
    ELSE IF get_component_throws(component)
    THEN Outcome(component_info, buffers_, "LookupError")
    ELSE Outcome(<<ComponentInfo(component, elements_per_scenario, total_elements)>>
                     \o component_info,
                 <<EmptyBuffer>> \o buffers_,
                 IF check_uniform_integrity_throws(elements_per_scenario, total_elements)
                 THEN "DatasetError" ELSE "ok")

\* add_component_info that grows buffers_ before it looks the component up
add_component_info_lookup_late(component, elements_per_scenario, total_elements) ==
    IF find_component(component) >= 0
    THEN Outcome(component_info, buffers_, "DatasetError")
    ELSE IF get_component_throws(component)
    THEN Outcome(component_info, Append(buffers_, EmptyBuffer), "LookupError")
    ELSE Outcome(Append(component_info,
                        ComponentInfo(component, elements_per_scenario, total_elements)),
                 Append(buffers_, EmptyBuffer),
                 IF check_uniform_integrity_throws(elements_per_scenario, total_elements)
                 THEN "DatasetError" ELSE "ok")

add_component_info(component, elements_per_scenario, total_elements) ==
    IF find_component(component) >= 0
    THEN Outcome(component_info, buffers_, "DatasetError")
    ELSE IF get_component_throws(component)
    THEN \* description_.dataset->get_component(component) throws before push_back
         Outcome(component_info, buffers_, "LookupError")
    ELSE Outcome(Append(component_info,
                        ComponentInfo(component, elements_per_scenario, total_elements)),
                 Append(buffers_, EmptyBuffer),
                 IF check_uniform_integrity_throws(elements_per_scenario, total_elements)
                 THEN "DatasetError" ELSE "ok")

\* set_buffer instantiating check_non_uniform_integrity<true>
set_buffer_check_indptr_content_true == TRUE

\* the template argument of check_non_uniform_integrity at line 96 and at line 108
add_buffer_check_indptr_content == TRUE
set_buffer_check_indptr_content == FALSE

\* add_buffer that stores the buffer in the first slot, not in the new one
add_buffer_first_slot(component, elements_per_scenario, total_elements, indptr, data) ==
    LET r == add_component_info(component, elements_per_scenario, total_elements) IN
    IF r.result # "ok"
    THEN {r}
    ELSE {IF chk = "ok"
          THEN Outcome(r.component_info,
                       [r.buffers EXCEPT ![1] = StoredBuffer(indptr, data)],
                       "ok")
          ELSE Outcome(r.component_info, r.buffers, chk) :
             chk \in check_non_uniform_integrity(add_buffer_check_indptr_content,
                                                 elements_per_scenario, total_elements,
                                                 indptr)}

add_buffer(component, elements_per_scenario, total_elements, indptr, data) ==
    LET r == add_component_info(component, elements_per_scenario, total_elements) IN
    IF r.result # "ok"
    THEN {r}
    ELSE {IF chk = "ok"
          THEN Outcome(r.component_info,
                       [r.buffers EXCEPT ![Len(r.buffers)] = StoredBuffer(indptr, data)],
                       "ok")
          ELSE Outcome(r.component_info, r.buffers, chk) :
             chk \in check_non_uniform_integrity(add_buffer_check_indptr_content,
                                                 elements_per_scenario, total_elements,
                                                 indptr)}

\* set_buffer that appends the buffer instead of assigning buffers_[idx]
set_buffer_push_back(component, indptr, data) ==
    LET idx == find_component(component) IN
    IF idx < 0
    THEN {Outcome(component_info, buffers_, "DatasetError")}
    ELSE LET info == component_info[idx + 1] IN
         {IF chk = "ok"
          THEN Outcome(component_info, Append(buffers_, StoredBuffer(indptr, data)), "ok")
          ELSE Outcome(component_info, buffers_, chk) :
             chk \in check_non_uniform_integrity(set_buffer_check_indptr_content,
                                                 info.elements_per_scenario,
                                                 info.total_elements, indptr)}

\* set_buffer that assigns the data pointer before it validates the offset index
set_buffer_store_first(component, indptr, data) ==
    LET idx == find_component(component) IN
    IF idx < 0
    THEN {Outcome(component_info, buffers_, "DatasetError")}
    ELSE LET info == component_info[idx + 1] IN
         {IF chk = "ok"
          THEN Outcome(component_info,
                       [buffers_ EXCEPT ![idx + 1] = StoredBuffer(indptr, data)],
                       "ok")
          ELSE Outcome(component_info,
                       [buffers_ EXCEPT ![idx + 1].data = data],
                       chk) :
             chk \in check_non_uniform_integrity(set_buffer_check_indptr_content,
                                                 info.elements_per_scenario,
                                                 info.total_elements, indptr)}

set_buffer(component, indptr, data) ==
    LET idx == find_component(component) IN
    IF idx < 0
    THEN \* find_component(component, true) throws
         {Outcome(component_info, buffers_, "DatasetError")}
    ELSE LET info == component_info[idx + 1] IN
         {IF chk = "ok"
          THEN Outcome(component_info,
                       [buffers_ EXCEPT ![idx + 1] = StoredBuffer(indptr, data)],
                       "ok")
          ELSE Outcome(component_info, buffers_, chk) :
             chk \in check_non_uniform_integrity(set_buffer_check_indptr_content,
                                                 info.elements_per_scenario,
                                                 info.total_elements, indptr)}

(***************************************************************************)
(* The calls.                                                              *)
(***************************************************************************)
\* the handler after a call that ended as outcome r, with `call` left to the caller
Apply(r, call) ==
    /\ description_' = [description_ EXCEPT !.component_info = r.component_info]
    /\ buffers_' = r.buffers
    /\ last' = call
    /\ UNCHANGED <<phase, variant, overlay>>

AddComponentInfo(component, elements_per_scenario, total_elements) ==
    /\ phase = "constructed"
    /\ last = NoCall
    /\ LET r == add_component_info(component, elements_per_scenario, total_elements) IN
        Apply(r, Call("add_component_info", component, elements_per_scenario,
                      total_elements, NULL, NULL, r.result))

AddBuffer(component, elements_per_scenario, total_elements, indptr, data) ==
    /\ phase = "constructed"
    /\ last = NoCall
    /\ \E r \in add_buffer(component, elements_per_scenario, total_elements, indptr, data) :
        Apply(r, Call("add_buffer", component, elements_per_scenario,
                      total_elements, indptr, data, r.result))

SetBuffer(component, indptr, data) ==
    /\ phase = "constructed"
    /\ last = NoCall
    /\ \E r \in set_buffer(component, indptr, data) :
        Apply(r, Call("set_buffer", component, 0, 0, indptr, data, r.result))

(***************************************************************************)
(* The caller takes the outcome of the call (the return, or the exception  *)
(* it catches) before it makes the next call.                              *)
(***************************************************************************)
Return ==
    /\ last # NoCall
    /\ last' = NoCall
    /\ UNCHANGED <<phase, variant, description_, buffers_, overlay>>

(***************************************************************************)
(* Arguments.  add_component_info and add_buffer throw at line 85 or in     *)
(* get_component (line 88) before they read the cardinality, the offset    *)
(* index or the data pointer, and set_buffer throws at line 106 before it  *)
(* reads its pointers: such a call is made with one value of the arguments *)
(* it never reads.                                                         *)
(***************************************************************************)
Attachable(component) ==
    component \in ComponentNames /\ find_component(component) < 0

Next ==
    \/ \E ib \in BOOLEAN, bs \in BatchSizes, ds \in DatasetArgs : Construct(ib, bs, ds)
    \/ \E c \in ComponentArgs :
          IF Attachable(c)
          THEN \E e \in EpsArgs, t \in TotalArgs : AddComponentInfo(c, e, t)
          ELSE AddComponentInfo(c, 0, 0)
    \/ \E c \in ComponentArgs :
          IF Attachable(c)
          THEN \E e \in EpsArgs, t \in TotalArgs, ip \in IndptrArgs, d \in DataArgs :
                   AddBuffer(c, e, t, ip, d)
          ELSE AddBuffer(c, 0, 0, NULL, NULL)
    \/ \E c \in ComponentArgs :
          IF find_component(c) >= 0
          THEN \E ip \in IndptrArgs, d \in DataArgs : SetBuffer(c, ip, d)
          ELSE SetBuffer(c, NULL, NULL)
    \/ Return

Spec == Init /\ [][Next]_vars

(***************************************************************************)
(* Idx is signed and add_component_info takes any two values: the          *)
(* constructor and add_component_info, called with cardinalities below -1  *)
(* and totals below 0 as well.  add_buffer records the cardinality through *)
(* this same add_component_info (line 95).                                 *)
(***************************************************************************)
SignedEpsArgs == (0 - 2)..MaxEps
SignedTotalArgs == (0 - 1)..MaxTotal

NextSigned ==
    \/ \E ib \in BOOLEAN, bs \in BatchSizes, ds \in DatasetArgs : Construct(ib, bs, ds)
    \/ \E c \in ComponentArgs :
          IF Attachable(c)
          THEN \E e \in SignedEpsArgs, t \in SignedTotalArgs : AddComponentInfo(c, e, t)
          ELSE AddComponentInfo(c, 0, 0)
    \/ Return

SpecSigned == Init /\ [][NextSigned]_vars

(***************************************************************************)
(* The const member functions.  Each yields how the call ends: the value   *)
(* it returns, or the exception it throws.                                 *)
(***************************************************************************)
Returned(value) == [result |-> "ok", value |-> value]
Thrown(exception) == [result |-> exception, value |-> NULL]

\* find_component that throws for a missing component whatever the flag says
find_component_or_throw_always(component, throw_not_found) ==
    IF find_component(component) < 0
    THEN Thrown("DatasetError")
    ELSE Returned(find_component(component))

\* find_component(component, throw_not_found), lines 66-77
find_component_or_throw(component, throw_not_found) ==
    IF find_component(component) < 0
    THEN IF throw_not_found THEN Thrown("DatasetError") ELSE Returned(0 - 1)
    ELSE Returned(find_component(component))

\* get_component_info(std::string_view), lines 79-81
get_component_info_by_name(component) ==
    LET idx == find_component_or_throw(component, TRUE) IN
    IF idx.result # "ok"
    THEN idx
    ELSE Returned(component_info[idx.value + 1])

\* what a reference into memory outside the component_info vector may show
WildInfos == {ComponentInfo(NULL, w, w) : w \in WildIdx}

\* get_component_info(Idx i), line 62: description_.component_info[i] with no
\* test of i; outside the vector the read is undefined: it yields whatever
\* lies there, or the access faults
get_component_info_by_index(i) ==
    IF i \in 0..(Len(component_info) - 1)
    THEN {Returned(component_info[i + 1])}
    ELSE {Returned(w) : w \in WildInfos} \cup {Thrown("fault")}

\* get_buffer that hands out a value-initialised Buffer
get_buffer_by_name_empty(component) ==
    LET idx == find_component_or_throw(component, TRUE) IN
    IF idx.result # "ok"
    THEN idx
    ELSE Returned(EmptyBuffer)

\* get_buffer(std::string_view), line 63, through get_buffer(Idx), line 64
get_buffer_by_name(component) ==
    LET idx == find_component_or_throw(component, TRUE) IN
    IF idx.result # "ok"
    THEN idx
    ELSE Returned(buffers_[idx.value + 1])

\* a call of a const member function: nothing of the handler changes
Query(call, r) ==
    /\ phase = "constructed"
    /\ last = NoCall
    /\ last' = [call EXCEPT !.result = r.result, !.value = r.value]
    /\ UNCHANGED <<phase, variant, description_, buffers_, overlay>>

FindComponent(component, throw_not_found) ==
    Query([Call("find_component", component, 0, 0, NULL, NULL, "none")
              EXCEPT !.flag = throw_not_found],
          find_component_or_throw(component, throw_not_found))

GetComponentInfoByName(component) ==
    Query(Call("get_component_info", component, 0, 0, NULL, NULL, "none"),
          get_component_info_by_name(component))

\* the index argument travels in total_elements
GetComponentInfoByIndex(i) ==
    \E r \in get_component_info_by_index(i) :
        Query(Call("get_component_info_idx", NULL, 0, i, NULL, NULL, "none"), r)

GetBuffer(component) ==
    Query(Call("get_buffer", component, 0, 0, NULL, NULL, "none"),
          get_buffer_by_name(component))

\* index arguments: every index of the vector and the first one off either end
IndexArgs == (0 - 1)..Len(component_info)

NextQueries ==
    \/ Next
    \/ \E c \in ComponentArgs, t \in BOOLEAN : FindComponent(c, t)
    \/ \E c \in ComponentArgs : GetComponentInfoByName(c)
    \/ \E i \in IndexArgs : GetComponentInfoByIndex(i)
    \/ \E c \in ComponentArgs : GetBuffer(c)

SpecQueries == Init /\ [][NextQueries]_vars

(***************************************************************************)
(* Row-mode views of the attached buffers.  A view is the data pointer of  *)
(* the component, the offset of its first record from that pointer, and    *)
(* its number of records.                                                  *)
(***************************************************************************)
DataSpan(data, offset, size) == [data |-> data, offset |-> offset, size |-> size]

\* the view between two record offsets begin and end
Slice(data, begin, end) == DataSpan(data, begin, end - begin)

\* the scenario argument that stands for "all scenarios" (the default)
invalid_index == 0 - 1

\* get_buffer_span that takes scenario s of a uniform component at offset s
get_buffer_span_unscaled(component, scenario) ==
    LET idx == find_component(component) + 1
        info == component_info[idx]
        buffer == buffers_[idx]
        e == info.elements_per_scenario
    IN  IF scenario = invalid_index
        THEN Returned(DataSpan(buffer.data, 0, info.total_elements))
        ELSE IF scenario \notin 0..(batch_size - 1)
        THEN Thrown("DatasetError")
        ELSE IF e < 0
        THEN IF buffer.indptr.ptr = NULL
             THEN Thrown("fault")
             ELSE Returned(Slice(buffer.data,
                                 IndptrMem(buffer.indptr.ptr, batch_size)[scenario],
                                 IndptrMem(buffer.indptr.ptr, batch_size)[scenario + 1]))
        ELSE Returned(Slice(buffer.data, scenario, scenario + e))

\* get_buffer_span<Component>(scenario) for an attached component: the whole
\* total_elements range for "all", else the slice of the scenario; a ragged
\* component whose offset index was never supplied has a null index to read
get_buffer_span(component, scenario) ==
    LET idx == find_component(component) + 1
        info == component_info[idx]
        buffer == buffers_[idx]
        e == info.elements_per_scenario
    IN  IF scenario = invalid_index
        THEN Returned(DataSpan(buffer.data, 0, info.total_elements))
        ELSE IF scenario \notin 0..(batch_size - 1)
        THEN Thrown("DatasetError")
        ELSE IF e < 0
        THEN IF buffer.indptr.ptr = NULL
             THEN Thrown("fault")
             ELSE Returned(Slice(buffer.data,
                                 IndptrMem(buffer.indptr.ptr, batch_size)[scenario],
                                 IndptrMem(buffer.indptr.ptr, batch_size)[scenario + 1]))
        ELSE Returned(Slice(buffer.data, scenario * e, (scenario + 1) * e))

\* the spans of scenarios 0 .. n - 1, collected in a loop
RECURSIVE ScenarioSpans(_, _)
ScenarioSpans(component, n) ==
    IF n <= 0
    THEN <<>>
    ELSE Append(ScenarioSpans(component, n - 1), get_buffer_span(component, n - 1))

\* get_buffer_span_all_scenarios that stops one scenario early
get_buffer_span_all_scenarios_short(component) ==
    LET spans == ScenarioSpans(component, batch_size - 1) IN
    IF \E s \in 1..Len(spans) : spans[s].result # "ok"
    THEN Thrown("fault")
    ELSE Returned([s \in 1..Len(spans) |-> spans[s].value])

\* get_buffer_span_all_scenarios<Component>() for an attached component
get_buffer_span_all_scenarios(component) ==
    LET spans == ScenarioSpans(component, batch_size) IN
    IF \E s \in 1..Len(spans) : spans[s].result # "ok"
    THEN Thrown("fault")
    ELSE Returned([s \in 1..Len(spans) |-> spans[s].value])

\* the handler get_individual_scenario builds: non-batch, of batch size 1, with
\* one ComponentInfo and one Buffer per component of the source; the data
\* pointer of a Buffer is the source's pointer advanced by a record offset
ScenarioHandler(infos, buffers) ==
    [is_batch |-> FALSE, batch_size |-> 1, dataset |-> description_.dataset,
     component_info |-> infos, buffers |-> buffers]

AdvancedPtr(data, offset) == [base |-> data, offset |-> offset]

\* number of records of component i (1-based) in the scenario, and the
\* offset of the first of them
ScenarioSize(i, scenario) ==
    IF component_info[i].elements_per_scenario >= 0
    THEN component_info[i].elements_per_scenario
    ELSE IndptrMem(buffers_[i].indptr.ptr, batch_size)[scenario + 1]
             - IndptrMem(buffers_[i].indptr.ptr, batch_size)[scenario]

ScenarioOffset(i, scenario) ==
    IF component_info[i].elements_per_scenario >= 0
    THEN ScenarioSize(i, scenario) * scenario
    ELSE IndptrMem(buffers_[i].indptr.ptr, batch_size)[scenario]

\* get_individual_scenario that keeps the total_elements of the batch
get_individual_scenario_batch_total(scenario) ==
    IF \E i \in 1..n_components :
           component_info[i].elements_per_scenario < 0 /\ buffers_[i].indptr.ptr = NULL
    THEN Thrown("fault")
    ELSE Returned(ScenarioHandler(
             [i \in 1..n_components |->
                 ComponentInfo(component_info[i].component,
                               ScenarioSize(i, scenario),
                               component_info[i].total_elements)],
             [i \in 1..n_components |->
                 [data |-> AdvancedPtr(buffers_[i].data, ScenarioOffset(i, scenario)),
                  indptr |-> EmptySpan]]))

\* get_individual_scenario(scenario), 0 <= scenario < batch_size(): every
\* component becomes uniform with the records of that scenario; a ragged
\* component whose offset index was never supplied has a null index to read
get_individual_scenario(scenario) ==
    IF \E i \in 1..n_components :
           component_info[i].elements_per_scenario < 0 /\ buffers_[i].indptr.ptr = NULL
    THEN Thrown("fault")
    ELSE Returned(ScenarioHandler(
             [i \in 1..n_components |->
                 ComponentInfo(component_info[i].component,
                               ScenarioSize(i, scenario),
                               ScenarioSize(i, scenario))],
             [i \in 1..n_components |->
                 [data |-> AdvancedPtr(buffers_[i].data, ScenarioOffset(i, scenario)),
                  indptr |-> EmptySpan]]))

\* get_buffer_span<Component>() of the handler h that get_individual_scenario
\* returned, for its component i (1-based)
ScenarioHandlerSpan(h, i) ==
    DataSpan(h.buffers[i].data.base, h.buffers[i].data.offset,
             h.component_info[i].total_elements)

\* only the variants whose offset index is immutable have the function
GetIndividualScenario(scenario) ==
    /\ variant \in {"Const", "Mutable"}
    /\ scenario \in 0..(batch_size - 1)
    /\ Query(Call("get_individual_scenario", NULL, 0, scenario, NULL, NULL, "none"),
             get_individual_scenario(scenario))

\* the scenario argument travels in total_elements
GetBufferSpan(component, scenario) ==
    /\ find_component(component) >= 0
    /\ Query(Call("get_buffer_span", component, 0, scenario, NULL, NULL, "none"),
             get_buffer_span(component, scenario))

GetBufferSpanAllScenarios(component) ==
    /\ find_component(component) >= 0
    /\ batch_size >= 0
    /\ Query(Call("get_buffer_span_all_scenarios", component, 0, 0, NULL, NULL, "none"),
             get_buffer_span_all_scenarios(component))

\* scenario arguments: "all", every scenario of the batch, and the first
\* index past the batch
ScenarioArgs == invalid_index..(IF batch_size > 0 THEN batch_size ELSE 0)

NextSpans ==
    \/ Next
    \/ \E c \in ComponentNames, s \in ScenarioArgs : GetBufferSpan(c, s)
    \/ \E c \in ComponentNames : GetBufferSpanAllScenarios(c)
    \/ \E s \in 0..(batch_size - 1) : GetIndividualScenario(s)

SpecSpans == Init /\ [][NextSpans]_vars

(***************************************************************************)
(* The columnar overlay (range object and proxy).  A columnar component    *)
(* has one caller-owned array per attribute of the record type; the        *)
(* attributes given to add_attribute_buffer are attached, the others are   *)
(* not.  A range object presents `size` consecutive positions of the       *)
(* attached arrays as records.                                             *)
(***************************************************************************)
\* the attributes of the record type A::InputType
Attributes == {"id", "a0", "a1"}

\* not-a-value: what a field with no attached column reads as
nan == 0 - 1

\* what the caller's array of attribute a holds at position k (1-based)
\* before anything is written through the overlay
InitialCell(a, k) ==
    CASE a = "id" -> k - 1
      [] a = "a0" -> 30 + k
      [] a = "a1" -> 60 + k

\* record values the caller assigns
RecordValues ==
    {[id |-> 20, a0 |-> 10, a1 |-> nan], [id |-> 21, a0 |-> nan, a1 |-> 11]}

\* total_elements of the component
OverlayLen == overlay.batch_size * overlay.elements_per_scenario

RangeObject(offset, size) == [offset |-> offset, size |-> size]

\* element(idx) of a range object: a proxy bound to one position of the arrays
Proxy(range, idx) == [position |-> range.offset + idx]

\* Proxy::get that reads the array of an attribute that is not attached
Get_unattached(proxy) ==
    [a \in Attributes |-> overlay.memory[a][proxy.position + 1]]

\* conversion of a proxy to the record type: gathers each attached field
Get(proxy) ==
    [a \in Attributes |->
        IF a \in overlay.attributes
        THEN overlay.memory[a][proxy.position + 1]
        ELSE nan]

\* assignment that scatters every field, attached or not
AssignProxy_all(proxy, v) ==
    [a \in Attributes |-> [overlay.memory[a] EXCEPT ![proxy.position + 1] = v[a]]]

\* the arrays after the assignment of record v to a proxy: scatters each
\* attached field
AssignProxy(proxy, v) ==
    [a \in Attributes |->
        IF a \in overlay.attributes
        THEN [overlay.memory[a] EXCEPT ![proxy.position + 1] = v[a]]
        ELSE overlay.memory[a]]

\* iterators of a range object
Begin(range) == [range |-> range, idx |-> 0]
End(range) == [range |-> range, idx |-> range.size]
Advance(it, n) == [it EXCEPT !.idx = @ + n]
DistanceTo(first, second) == second.idx - first.idx
Dereference(it) == Proxy(it.range, it.idx)

\* ++it and it++ (--it and it--): the iterator afterwards and the value of the
\* expression
PreIncrement(it) == [it |-> Advance(it, 1), returned |-> Advance(it, 1)]
PreDecrement(it) == [it |-> Advance(it, 0 - 1), returned |-> Advance(it, 0 - 1)]

\* it++ that returns the incremented iterator
PostIncrement_new(it) == [it |-> Advance(it, 1), returned |-> Advance(it, 1)]

PostIncrement(it) == [it |-> Advance(it, 1), returned |-> it]
PostDecrement(it) == [it |-> Advance(it, 0 - 1), returned |-> it]

\* the iterator after n pre-increments, and after n post-increments
RECURSIVE PreIncrements(_, _)
PreIncrements(it, n) ==
    IF n <= 0 THEN it ELSE PreIncrements(PreIncrement(it).returned, n - 1)

RECURSIVE PostIncrements(_, _)
PostIncrements(it, n) ==
    IF n <= 0 THEN it ELSE PostIncrements(PostIncrement(it).it, n - 1)

\* for (auto const& element : range): the records from `it` up to end()
RECURSIVE Iteration(_)
Iteration(it) ==
    IF it = End(it.range)
    THEN <<>>
    ELSE <<Get(Dereference(it))>> \o Iteration(PreIncrement(it).it)

\* get_columnar_buffer_span that slices at the scenario number
get_columnar_buffer_span_unscaled(scenario) ==
    IF scenario = invalid_index
    THEN Returned(RangeObject(0, OverlayLen))
    ELSE IF scenario \notin 0..(overlay.batch_size - 1)
    THEN Thrown("DatasetError")
    ELSE Returned(RangeObject(scenario, overlay.elements_per_scenario))

\* get_columnar_buffer_span<Component>(scenario) of the uniform component
get_columnar_buffer_span(scenario) ==
    IF scenario = invalid_index
    THEN Returned(RangeObject(0, OverlayLen))
    ELSE IF scenario \notin 0..(overlay.batch_size - 1)
    THEN Thrown("DatasetError")
    ELSE Returned(RangeObject(scenario * overlay.elements_per_scenario,
                              overlay.elements_per_scenario))

RECURSIVE ColumnarScenarioSpans(_)
ColumnarScenarioSpans(n) ==
    IF n <= 0
    THEN <<>>
    ELSE Append(ColumnarScenarioSpans(n - 1), get_columnar_buffer_span(n - 1).value)

get_columnar_buffer_span_all_scenarios ==
    Returned(ColumnarScenarioSpans(overlay.batch_size))

\* the range object over the whole component
Whole == RangeObject(0, OverlayLen)

\* what the iterator expressions for position i of a range yield
IteratorAccess(range, i) ==
    [plus |-> Advance(Begin(range), i),
     minus |-> Advance(Advance(End(range), 0 - range.size), i),
     distance_begin |-> DistanceTo(Begin(range), Advance(Begin(range), i)),
     distance_end |-> DistanceTo(Advance(Begin(range), i), End(range)),
     pre |-> PreIncrements(Begin(range), i),
     post |-> PostIncrements(Begin(range), i),
     pre_returned |-> PreIncrement(Advance(Begin(range), i)).returned,
     post_returned |-> PostIncrement(Advance(Begin(range), i)).returned,
     pre_decrement_returned |-> PreDecrement(Advance(Begin(range), i)).returned,
     post_decrement_returned |-> PostDecrement(Advance(Begin(range), i)).returned,
     records |-> IF i < range.size
                 THEN [through_iterator |-> Get(Dereference(Advance(Begin(range), i))),
                       through_iteration |-> Iteration(Begin(range))[i + 1],
                       through_index |-> Get(Proxy(range, i))]
                 ELSE [through_iterator |-> <<>>, through_iteration |-> <<>>,
                       through_index |-> <<>>]]

\* a columnar component of a handler: uniform, with columns of
\* batch_size * elements_per_scenario records, some attributes attached
InitOverlay ==
    /\ phase = "columnar"
    /\ variant \in Variants
    /\ description_ = NoDescription
    /\ buffers_ = <<>>
    /\ last = NoCall
    /\ \E b \in 0..MaxBatch, e \in 0..MaxLen, attached \in SUBSET Attributes :
          /\ b * e <= MaxLen
          /\ overlay = [batch_size |-> b, elements_per_scenario |-> e,
                        attributes |-> attached,
                        memory |-> [a \in Attributes |->
                                       [k \in 1..(b * e) |-> InitialCell(a, k)]]]

\* range[idx] = v: only the mutable range object has the assignment
Assign(idx, v) ==
    /\ phase = "columnar"
    /\ last = NoCall
    /\ variant # "Const"
    /\ overlay' = [overlay EXCEPT !.memory = AssignProxy(Proxy(Whole, idx), v)]
    /\ last' = [Call("assign", NULL, 0, idx, NULL, NULL, "ok") EXCEPT !.value = v]
    /\ UNCHANGED <<phase, variant, description_, buffers_>>

\* a call that reads the overlay
OverlayQuery(call, r) ==
    /\ phase = "columnar"
    /\ last = NoCall
    /\ last' = [call EXCEPT !.result = r.result, !.value = r.value]
    /\ UNCHANGED <<phase, variant, description_, buffers_, overlay>>

Iterate(i) ==
    OverlayQuery(Call("iterator", NULL, 0, i, NULL, NULL, "none"),
                 Returned(IteratorAccess(Whole, i)))

GetColumnarBufferSpan(scenario) ==
    OverlayQuery(Call("get_columnar_buffer_span", NULL, 0, scenario, NULL, NULL, "none"),
                 get_columnar_buffer_span(scenario))

GetColumnarBufferSpanAllScenarios ==
    OverlayQuery(Call("get_columnar_buffer_span_all_scenarios", NULL, 0, 0,
                      NULL, NULL, "none"),
                 get_columnar_buffer_span_all_scenarios)

NextOverlay ==
    \/ \E i \in 0..(OverlayLen - 1), v \in RecordValues : Assign(i, v)
    \/ \E i \in 0..OverlayLen : Iterate(i)
    \/ \E s \in invalid_index..overlay.batch_size : GetColumnarBufferSpan(s)
    \/ GetColumnarBufferSpanAllScenarios
    \/ Return

SpecOverlay == InitOverlay /\ [][NextOverlay]_vars

(***************************************************************************)
(* Properties.  A call step is a step from last = NoCall to last' # NoCall; *)
(* last' holds the call's arguments and outcome, the unprimed variables the *)
(* handler before the call and the primed ones the handler after it.        *)
(***************************************************************************)
Attach == {"add_component_info", "add_buffer"}

\* names of the attached components, in attach order
AttachedNames == [i \in 1..Len(component_info) |-> component_info[i].component]

\* the presence of the offset index contradicts the layout
PresenceMismatch(elements_per_scenario, indptr) ==
    \/ elements_per_scenario = 0 - 1 /\ indptr = NULL
    \/ elements_per_scenario >= 0 /\ indptr # NULL

\* C1: an add_component_info or add_buffer call that fails with DatasetError
\* leaves n_components(), get_description().component_info and every stored
\* buffer as they were before the call.
C1_FailedAttachHasNoEffect ==
    [][(last'.op \in Attach /\ last'.result = "DatasetError")
           => (description_' = description_ /\ buffers_' = buffers_)]_vars

\* C2: in every reachable state every ComponentInfo with
\* elements_per_scenario >= 0 has total_elements = elements_per_scenario * batch_size.
C2_UniformCardinality ==
    \A i \in 1..Len(component_info) :
        component_info[i].elements_per_scenario >= 0
            => component_info[i].total_elements
                   = component_info[i].elements_per_scenario * batch_size

\* C3: on a handler with batch_size >= 0, add_component_info(component, e, t)
\* for a component known to the dataset kind and not yet attached, with e >= 0,
\* succeeds if and only if t = e * batch_size, and otherwise fails with DatasetError.
C3_UniformAcceptedIffProduct ==
    [][(/\ last'.op = "add_component_info"
        /\ last'.component \in ComponentNames
        /\ find_component(last'.component) < 0
        /\ last'.elements_per_scenario >= 0
        /\ batch_size >= 0)
           => /\ last'.result \in {"ok", "DatasetError"}
              /\ last'.result = "ok"
                     <=> last'.total_elements = last'.elements_per_scenario * batch_size]_vars

\* C3 happens: on a batch handler of batch_size 0, a component with one element
\* per scenario and total_elements 0 has been accepted
C3_Witness ==
    /\ last.op = "add_component_info"
    /\ last.result = "ok"
    /\ last.elements_per_scenario = 1
    /\ last.total_elements = 0
    /\ batch_size = 0
    /\ find_component(last.component) = Len(component_info) - 1

\* C4: a component name is attached at most once: in every reachable state the
\* names in component_info are pairwise distinct, and attaching an attached name
\* through add_component_info or add_buffer fails with DatasetError whatever the
\* cardinality, the offset index and the data pointer (evaluated where the
\* handler is between two calls).
C4_NoDuplicateComponent ==
    /\ \A i, j \in 1..Len(component_info) :
           component_info[i].component = component_info[j].component => i = j
    /\ \A c \in ComponentArgs :
           (last = NoCall /\ find_component(c) >= 0) =>
               \A e \in EpsArgs, t \in TotalArgs :
                   /\ add_component_info(c, e, t).result = "DatasetError"
                   /\ \A ip \in IndptrArgs, d \in DataArgs :
                          \A r \in add_buffer(c, e, t, ip, d) : r.result = "DatasetError"

\* C4 happens: add_buffer has just failed with DatasetError on a component that
\* already holds a buffer, with another component attached after it
C4_Witness ==
    /\ last.op = "add_buffer"
    /\ last.result = "DatasetError"
    /\ Len(component_info) = 2
    /\ find_component(last.component) = 0
    /\ buffers_[1].data # NULL

\* C5: a successful attach of a component appends it at the end of the attach
\* order: its find_component index is the previous n_components(), and the
\* ComponentInfo and the buffer of every component attached before are unchanged
\* at their indices.
C5_AttachAppends ==
    [][(last'.op \in Attach /\ last'.result = "ok")
           => /\ Len(component_info') = Len(component_info) + 1
              /\ Len(buffers_') = n_components + 1
              /\ component_info'[n_components + 1].component = last'.component
              /\ \A i \in 1..(n_components + 1) :
                     component_info'[i].component = last'.component => i = n_components + 1
              /\ SubSeq(component_info', 1, Len(component_info)) = component_info
              /\ SubSeq(buffers_', 1, n_components) = buffers_]_vars

\* C5 happens: a second component has been attached after one that holds a buffer
C5_Witness ==
    /\ last.op \in Attach
    /\ last.result = "ok"
    /\ Len(component_info) = 2
    /\ component_info[2].component = last.component
    /\ buffers_[1].data # NULL

\* C6: add_buffer for a component of the dataset kind, and set_buffer for an
\* attached component, fail with DatasetError when the component is ragged
\* (elements_per_scenario = -1) and the offset index is null, and when the
\* component is uniform (elements_per_scenario >= 0) and an offset index is given.
C6_IndptrPresence ==
    [][/\ (/\ last'.op = "add_buffer"
           /\ last'.component \in ComponentNames
           /\ PresenceMismatch(last'.elements_per_scenario, last'.indptr))
              => last'.result = "DatasetError"
       /\ (/\ last'.op = "set_buffer"
           /\ find_component(last'.component) >= 0
           /\ PresenceMismatch(
                  component_info[find_component(last'.component) + 1].elements_per_scenario,
                  last'.indptr))
              => last'.result = "DatasetError"]_vars

\* C6 happens: set_buffer without an offset index has failed on a ragged component
C6_Witness ==
    /\ last.op = "set_buffer"
    /\ last.result = "DatasetError"
    /\ last.indptr = NULL
    /\ find_component(last.component) >= 0
    /\ component_info[find_component(last.component) + 1].elements_per_scenario = 0 - 1
    /\ buffers_[find_component(last.component) + 1] = EmptyBuffer

\* C7: on a Const or Mutable handler (batch_size >= 0, so that the offset index
\* has the entries 0 and batch_size), add_buffer for a not yet attached ragged
\* component with a non-null offset index succeeds exactly if index[0] = 0 and
\* index[batch_size] = total_elements, and otherwise fails with DatasetError.
C7_RaggedBoundsChecked ==
    [][(/\ variant \in {"Const", "Mutable"}
        /\ batch_size >= 0
        /\ last'.op = "add_buffer"
        /\ last'.component \in ComponentNames
        /\ find_component(last'.component) < 0
        /\ last'.elements_per_scenario = 0 - 1
        /\ last'.indptr # NULL)
           => /\ last'.result \in {"ok", "DatasetError"}
              /\ last'.result = "ok"
                     <=> /\ IndptrMem(last'.indptr, batch_size)[0] = 0
                         /\ IndptrMem(last'.indptr, batch_size)[batch_size]
                                = last'.total_elements]_vars

\* C7 happens: a Const handler of batch_size 2 has accepted a ragged component
\* with a non-empty offset index range
C7_Witness ==
    /\ variant = "Const"
    /\ batch_size = 2
    /\ last.op = "add_buffer"
    /\ last.result = "ok"
    /\ last.elements_per_scenario = 0 - 1
    /\ last.indptr = "ip_mono"
    /\ last.total_elements > 0

\* C8: set_buffer on a Writable handler, for a component registered with
\* elements_per_scenario = -1, succeeds with every non-null offset index,
\* whatever its first and last entries, and stores that index and the data pointer.
C8_SetBufferSkipsContent ==
    [][(/\ variant = "Writable"
        /\ last'.op = "set_buffer"
        /\ find_component(last'.component) >= 0
        /\ component_info[find_component(last'.component) + 1].elements_per_scenario = 0 - 1
        /\ last'.indptr # NULL)
           => /\ last'.result = "ok"
              /\ buffers_'[find_component(last'.component) + 1]
                     = [data |-> last'.data,
                        indptr |-> Span(last'.indptr, batch_size + 1)]]_vars

\* C8 happens: a Writable handler of batch_size 2 stores an offset index that
\* begins with 1
C8_Witness ==
    /\ variant = "Writable"
    /\ batch_size = 2
    /\ last.op = "set_buffer"
    /\ last.result = "ok"
    /\ last.indptr = "ip_first1"
    /\ IndptrMem("ip_first1", batch_size)[0] # 0
    /\ buffers_[find_component(last.component) + 1].indptr.ptr = "ip_first1"

\* C9: no set_buffer call, successful or failed, changes get_description() or
\* n_components().
C9_SetBufferKeepsDescription ==
    [][last'.op = "set_buffer"
           => description_' = description_ /\ Len(buffers_') = n_components]_vars

\* C9 happens: set_buffer has stored a buffer for the first of two components
C9_Witness ==
    /\ last.op = "set_buffer"
    /\ last.result = "ok"
    /\ Len(component_info) = 2
    /\ find_component(last.component) = 0
    /\ buffers_[1].data # NULL

\* C10: a set_buffer call that fails with DatasetError leaves every stored
\* buffer unchanged.
C10_FailedSetBufferKeepsBuffers ==
    [][(last'.op = "set_buffer" /\ last'.result = "DatasetError")
           => buffers_' = buffers_]_vars

\* C10 happens: set_buffer has failed on a component that holds a data pointer
\* and an offset index, because no offset index was given
C10_Witness ==
    /\ last.op = "set_buffer"
    /\ last.result = "DatasetError"
    /\ last.indptr = NULL
    /\ last.data # NULL
    /\ find_component(last.component) >= 0
    /\ buffers_[find_component(last.component) + 1].data # NULL
    /\ buffers_[find_component(last.component) + 1].indptr.ptr # NULL

(***************************************************************************)
(* The constructor.                                                        *)
(***************************************************************************)
\* the state right after a constructor call for a registered dataset kind
Constructed(ib) ==
    /\ last.op = "construct"
    /\ last.flag = ib
    /\ ~get_dataset_throws(last.component)

\* C11: constructing with is_batch == false succeeds if and only if
\* batch_size == 1 and otherwise throws DatasetError; a handler whose
\* construction succeeded (batch or not) has no components, an empty
\* component_info, and reports exactly the is_batch and batch_size it was given.
C11_NonBatchNeedsSizeOne ==
    /\ Constructed(FALSE) =>
          /\ last.result = "ok" <=> last.total_elements = 1
          /\ last.result # "ok" => last.result = "DatasetError" /\ phase = "failed"
    /\ last.op = "construct" /\ last.result = "ok" =>
          /\ phase = "constructed"
          /\ n_components = 0
          /\ component_info = <<>>
          /\ is_batch = last.flag
          /\ batch_size = last.total_elements

\* a non-batch construction that was refused, and one that was accepted
C11_Witness ==
    /\ Constructed(FALSE)
    /\ last.result = "DatasetError"
    /\ last.total_elements = 0

C11_WitnessAccepted ==
    /\ Constructed(FALSE)
    /\ last.result = "ok"
    /\ batch_size = 1

\* C12: constructing a batch handler succeeds for every batch_size >= 0,
\* 0 included, and throws DatasetError for a negative batch_size.
C12_BatchRejectsNegativeSize ==
    Constructed(TRUE) =>
        /\ last.total_elements >= 0 => last.result = "ok"
        /\ last.total_elements < 0 => last.result = "DatasetError"

\* C13: a constructor call for a dataset kind that is not registered, and an
\* add_component_info or add_buffer call for a component the dataset kind does
\* not know, end in the registry's lookup error, which is not DatasetError;
\* the attach call then leaves n_components(), the description and the
\* buffers as they were.
C13_UnknownNameIsLookupError ==
    [][/\ last'.op = "construct" /\ get_dataset_throws(last'.component) =>
            last'.result = "LookupError" /\ phase' = "failed"
       /\ last'.op \in Attach /\ get_component_throws(last'.component) =>
            /\ last'.result = "LookupError"
            /\ description_' = description_
            /\ buffers_' = buffers_
            /\ Len(buffers_') = n_components]_vars

C13_Witness ==
    /\ last.op \in Attach
    /\ last.component = "unknown"
    /\ last.result = "LookupError"
    /\ n_components = 1

C13_WitnessDataset ==
    /\ last.op = "construct"
    /\ last.component = "no_such_dataset"
    /\ last.result = "LookupError"

(***************************************************************************)
(* Component queries.                                                      *)
(***************************************************************************)
IsAttached(component) == \E i \in 1..Len(component_info) : AttachedNames[i] = component

\* C14: find_component(name, throw_not_found) returns the 0-based
\* attach-order index of an attached component; for a component that is not
\* attached it returns -1 when throw_not_found is false and throws
\* DatasetError when it is true; the call never modifies the handler.
C14_FindComponent ==
    /\ [](last.op = "find_component" =>
            IF IsAttached(last.component)
            THEN /\ last.result = "ok"
                 /\ last.value \in 0..(n_components - 1)
                 /\ AttachedNames[last.value + 1] = last.component
            ELSE IF last.flag
                 THEN last.result = "DatasetError"
                 ELSE last.result = "ok" /\ last.value = 0 - 1)
    /\ [][last'.op = "find_component" =>
            /\ description_' = description_
            /\ buffers_' = buffers_
            /\ phase' = phase]_vars

\* the second of two attached components is found at index 1
C14_Witness ==
    /\ last.op = "find_component"
    /\ last.result = "ok"
    /\ last.value = 1

C14_WitnessMissing ==
    /\ last.op = "find_component"
    /\ ~last.flag
    /\ last.result = "ok"
    /\ n_components = 1
    /\ ~IsAttached(last.component)

\* C15: get_component_info throws DatasetError whenever its argument, a
\* component name or an index, does not denote an attached component; for an
\* attached component it returns the component reference,
\* elements_per_scenario and total_elements of its ComponentInfo.
C15_GetComponentInfoChecksArgument ==
    /\ last.op = "get_component_info" =>
          IF IsAttached(last.component)
          THEN /\ last.result = "ok"
               /\ last.value = component_info[find_component(last.component) + 1]
          ELSE last.result = "DatasetError"
    /\ last.op = "get_component_info_idx" =>
          IF last.total_elements \in 0..(n_components - 1)
          THEN /\ last.result = "ok"
               /\ last.value = component_info[last.total_elements + 1]
          ELSE last.result = "DatasetError"

(***************************************************************************)
(* The life of a component.                                                *)
(***************************************************************************)
\* a call that has stored a buffer for the component at index i (1-based)
StoresBufferAt(call, i) ==
    /\ call.op \in {"add_buffer", "set_buffer"}
    /\ call.result = "ok"
    /\ find_component(call.component) = i - 1

\* C16: each component moves only forward through Unregistered ->
\* Info-attached -> Buffer-attached: an attached component stays attached,
\* and once a buffer has been stored for it no step takes the buffer away or
\* stores a buffer for it a second time.
C16_ForwardOnly ==
    [][\A i \in 1..n_components :
          /\ i <= Len(component_info')
          /\ component_info'[i] = component_info[i]
          /\ buffers_[i] # EmptyBuffer =>
                /\ buffers_'[i] = buffers_[i]
                /\ ~StoresBufferAt(last', i)]_vars

(***************************************************************************)
(* Row-mode views.                                                         *)
(***************************************************************************)
\* the ComponentInfo and the Buffer of an attached component
InfoOf(component) == component_info[find_component(component) + 1]
BufferOf(component) == buffers_[find_component(component) + 1]

\* C17: for an attached row-mode component and a scenario s of the batch,
\* get_buffer_span(s) is the slice of length e starting at record offset
\* s * e when the component is uniform with e elements per scenario, and the
\* slice [idx[s], idx[s + 1]) when it is ragged with offset index idx.
C17_ScenarioSlice ==
    (/\ last.op = "get_buffer_span"
     /\ last.total_elements \in 0..(batch_size - 1)) =>
        LET s == last.total_elements
            e == InfoOf(last.component).elements_per_scenario
            idx == BufferOf(last.component).indptr.ptr
        IN  IF e >= 0
            THEN /\ last.result = "ok"
                 /\ last.value.data = BufferOf(last.component).data
                 /\ last.value.offset = s * e
                 /\ last.value.size = e
            ELSE idx # NULL =>
                 /\ last.result = "ok"
                 /\ last.value.data = BufferOf(last.component).data
                 /\ last.value.offset = IndptrMem(idx, batch_size)[s]
                 /\ last.value.offset + last.value.size
                        = IndptrMem(idx, batch_size)[s + 1]

\* the second scenario of a uniform component with one element per scenario
C17_Witness ==
    /\ last.op = "get_buffer_span"
    /\ last.result = "ok"
    /\ last.total_elements = 1
    /\ InfoOf(last.component).elements_per_scenario = 1
    /\ last.value.data # NULL

\* the last scenario of a ragged component: one record at offset 0
C17_WitnessRagged ==
    /\ last.op = "get_buffer_span"
    /\ last.result = "ok"
    /\ last.total_elements = batch_size - 1
    /\ InfoOf(last.component).elements_per_scenario < 0
    /\ last.value.size = 1

\* C18: get_buffer_span_all_scenarios returns exactly batch_size spans, in
\* scenario order (none for batch_size 0, one for a non-batch handler), and
\* its s-th span equals get_buffer_span(s).
C18_AllScenarios ==
    (last.op = "get_buffer_span_all_scenarios" /\ last.result = "ok") =>
        /\ Len(last.value) = batch_size
        /\ ~is_batch => Len(last.value) = 1
        /\ \A s \in 0..(batch_size - 1) :
              last.value[s + 1] = get_buffer_span(last.component, s).value

\* two spans of a uniform component with data, the second one at offset 1
C18_Witness ==
    /\ last.op = "get_buffer_span_all_scenarios"
    /\ last.result = "ok"
    /\ batch_size = 2
    /\ Len(last.value) = 2
    /\ last.value[2].offset = 1
    /\ last.value[2].data # NULL

C18_WitnessEmpty ==
    /\ last.op = "get_buffer_span_all_scenarios"
    /\ last.result = "ok"
    /\ batch_size = 0
    /\ last.value = <<>>

\* C19: after a successful attach of a row-mode component with data pointer
\* p the handler holds p itself: get_buffer returns a Buffer whose data is p,
\* and get_buffer_span for all scenarios starts at p and has total_elements
\* records, for uniform and ragged components, batch and non-batch handlers.
C19_AttachKeepsPointer ==
    (last.op \in {"add_buffer", "set_buffer"} /\ last.result = "ok") =>
        /\ get_buffer_by_name(last.component).result = "ok"
        /\ get_buffer_by_name(last.component).value.data = last.data
        /\ get_buffer_span(last.component, invalid_index)
              = Returned(DataSpan(last.data, 0, InfoOf(last.component).total_elements))
        /\ last.op = "add_buffer" =>
              InfoOf(last.component).total_elements = last.total_elements

\* a ragged component with one record has been attached to a batch handler
C19_Witness ==
    /\ last.op = "add_buffer"
    /\ last.result = "ok"
    /\ last.data # NULL
    /\ last.elements_per_scenario < 0
    /\ last.total_elements = 1
    /\ is_batch

C19_WitnessNonBatch ==
    /\ last.op = "add_buffer"
    /\ last.result = "ok"
    /\ last.data # NULL
    /\ last.elements_per_scenario = 1
    /\ ~is_batch

\* C20: get_individual_scenario(s) on a Const or Mutable handler, for s in
\* [0, batch_size), yields a handler with is_batch false, batch_size 1 and
\* the source's n_components(), in which the whole span of every component
\* equals the source's get_buffer_span(s); a uniform component keeps its
\* elements_per_scenario, a ragged one gets the length of scenario s, and in
\* both cases total_elements equals elements_per_scenario.
C20_IndividualScenario ==
    (last.op = "get_individual_scenario" /\ last.result = "ok") =>
        LET h == last.value
            s == last.total_elements
        IN  /\ ~h.is_batch
            /\ h.batch_size = 1
            /\ Len(h.buffers) = n_components
            /\ Len(h.component_info) = n_components
            /\ \A i \in 1..n_components :
                  LET c == component_info[i].component
                      e == component_info[i].elements_per_scenario
                  IN  /\ h.component_info[i].component = c
                      /\ Returned(ScenarioHandlerSpan(h, i)) = get_buffer_span(c, s)
                      /\ e >= 0 => h.component_info[i].elements_per_scenario = e
                      /\ e < 0 => h.component_info[i].elements_per_scenario
                                      = get_buffer_span(c, s).value.size
                      /\ h.component_info[i].total_elements
                             = h.component_info[i].elements_per_scenario

\* the second scenario of a batch of two with a uniform and a ragged component
C20_Witness ==
    /\ last.op = "get_individual_scenario"
    /\ last.result = "ok"
    /\ last.total_elements = 1
    /\ is_batch
    /\ n_components = 2
    /\ \E i, j \in 1..2 :
          /\ component_info[i].elements_per_scenario = 1
          /\ component_info[j].elements_per_scenario < 0
          /\ last.value.component_info[j].total_elements = 1

(***************************************************************************)
(* The variants and the offset index.                                      *)
(***************************************************************************)
\* C25: set_buffer is an operation of the Writable variant only: on a Const
\* or Mutable handler no set_buffer call takes place, and the buffer of a
\* slot, once the slot exists, is never replaced.
C25_SetBufferWritableOnly ==
    [][(variant \in {"Const", "Mutable"}) =>
          (/\ last'.op # "set_buffer"
           /\ \A i \in 1..n_components : buffers_'[i] = buffers_[i])]_vars

\* C26: in every reachable state of a Const or Mutable handler (with
\* batch_size >= 0, so that the index has the entries 0 and batch_size),
\* every ragged component that holds an offset index holds one with
\* index[0] = 0 and index[batch_size] = total_elements.
C26_StoredIndexWasChecked ==
    (variant \in {"Const", "Mutable"} /\ batch_size >= 0) =>
        \A i \in 1..n_components :
            (/\ i <= Len(component_info)
             /\ component_info[i].elements_per_scenario < 0
             /\ buffers_[i].indptr.ptr # NULL) =>
                /\ IndptrMem(buffers_[i].indptr.ptr, batch_size)[0] = 0
                /\ IndptrMem(buffers_[i].indptr.ptr, batch_size)[batch_size]
                       = component_info[i].total_elements

\* whether the entries of the index strictly between the first and the last
\* decrease or leave [0, total_elements]
BadInterior(indptr, total_elements) ==
    LET mem == IndptrMem(indptr, batch_size) IN
    \/ \E i \in 1..(batch_size - 1) : mem[i] \notin 0..total_elements
    \/ \E i \in 0..(batch_size - 1) : mem[i] > mem[i + 1]

\* C27: add_buffer does not validate the interior of a ragged offset index:
\* for a not yet attached component, an index with index[0] = 0 and
\* index[batch_size] = total_elements is accepted and stored even when its
\* interior entries decrease or lie outside [0, total_elements].
C27_InteriorNotValidated ==
    [][(/\ batch_size >= 0
        /\ last'.op = "add_buffer"
        /\ Attachable(last'.component)
        /\ last'.elements_per_scenario = 0 - 1
        /\ last'.indptr # NULL
        /\ IndptrMem(last'.indptr, batch_size)[0] = 0
        /\ IndptrMem(last'.indptr, batch_size)[batch_size] = last'.total_elements
        /\ BadInterior(last'.indptr, last'.total_elements))
           => (/\ last'.result = "ok"
               /\ buffers_'[Len(buffers_')].indptr.ptr = last'.indptr)]_vars

\* an index 0, MaxTotal + 1, 0 has been accepted for total_elements 0
C27_Witness ==
    /\ last.op = "add_buffer"
    /\ last.result = "ok"
    /\ batch_size = 2
    /\ last.indptr = "ip_peak"
    /\ BadInterior(last.indptr, last.total_elements)
    /\ buffers_[n_components].indptr.ptr = "ip_peak"

\* C29: in every reachable state the handler holds exactly one buffer slot
\* per attached ComponentInfo, in the same order: n_components() is the
\* length of component_info, and a buffer stored for a component is
\* get_buffer(i) for the index i at which get_component_info(i) is that
\* component, every other slot keeping what it held.
C29_OneSlotPerComponent ==
    /\ [](n_components = Len(component_info))
    /\ [][(last'.op \in {"add_buffer", "set_buffer"} /\ last'.result = "ok") =>
            \E i \in 1..Len(component_info') :
                /\ component_info'[i].component = last'.component
                /\ buffers_'[i].data = last'.data
                /\ buffers_'[i].indptr.ptr = last'.indptr
                /\ \A j \in 1..n_components : j # i => buffers_'[j] = buffers_[j]]_vars

\* add_buffer has stored a pointer for the second component, the first one
\* holding none
C29_Witness ==
    /\ last.op = "add_buffer"
    /\ last.result = "ok"
    /\ last.data # NULL
    /\ n_components = 2
    /\ buffers_[1].data = NULL
    /\ buffers_[2].data = last.data

\* C30: on a batch handler with batch_size 0 the offset index has one entry,
\* its first and its last: add_buffer on a Const or Mutable handler accepts a
\* not yet attached ragged component only with total_elements = 0 (and does so
\* when that entry is 0) and fails with DatasetError for total_elements > 0;
\* add_component_info accepts a ragged component with any total_elements.
C30_EmptyBatchRagged ==
    [][(/\ is_batch
        /\ batch_size = 0
        /\ Attachable(last'.component)
        /\ last'.elements_per_scenario = 0 - 1)
           => /\ (/\ last'.op = "add_buffer"
                  /\ variant \in {"Const", "Mutable"}
                  /\ last'.indptr # NULL) =>
                     /\ last'.result = "ok" => last'.total_elements = 0
                     /\ last'.total_elements > 0 => last'.result = "DatasetError"
                     /\ (/\ last'.total_elements = 0
                         /\ IndptrMem(last'.indptr, 0)[0] = 0) => last'.result = "ok"
              /\ (last'.op = "add_component_info" => last'.result = "ok")]_vars

\* a Const handler of batch size 0 has refused a ragged component with one
\* element whose index holds the single entry 1
C30_Witness ==
    /\ variant = "Const"
    /\ is_batch
    /\ batch_size = 0
    /\ last.op = "add_buffer"
    /\ last.elements_per_scenario = 0 - 1
    /\ last.total_elements = 1
    /\ last.indptr = "ip_first1"
    /\ last.result = "DatasetError"

C30_WitnessWritable ==
    /\ variant = "Writable"
    /\ is_batch
    /\ batch_size = 0
    /\ last.op = "add_component_info"
    /\ last.elements_per_scenario = 0 - 1
    /\ last.total_elements = 1
    /\ last.result = "ok"

Expected(position) ==
    [a \in Attributes |->
        IF a \in overlay.attributes THEN overlay.memory[a][position + 1] ELSE nan]

\* C21: after a record v has been assigned through the mutable proxy at
\* index i, reading index i yields a record equal to v in every attribute
\* with an attached column and not-a-value in every attribute without one.
C21_OverlayRoundTrip ==
    last.op = "assign" =>
        Get(Proxy(Whole, last.total_elements))
            = [a \in Attributes |->
                  IF a \in overlay.attributes THEN last.value[a] ELSE nan]

\* id and a1 are attached, a0 is not; the record (20, 10, nan) was assigned
\* at index 1
C21_Witness ==
    /\ last.op = "assign"
    /\ last.total_elements = 1
    /\ overlay.attributes = {"id", "a1"}
    /\ last.value.a0 = 10
    /\ overlay.memory["id"][2] = 20
    /\ overlay.memory["a0"][2] # 10

\* C22: assigning a record to the proxy at index i writes only position i of
\* each attached column: every other position of every column is unchanged,
\* and the arrays of attributes with no attached column are not written.
C22_AssignWritesOnePosition ==
    [][last'.op = "assign" =>
          /\ overlay'.attributes = overlay.attributes
          /\ overlay'.batch_size = overlay.batch_size
          /\ overlay'.elements_per_scenario = overlay.elements_per_scenario
          /\ \A a \in Attributes :
                /\ Len(overlay'.memory[a]) = Len(overlay.memory[a])
                /\ \A k \in 1..Len(overlay.memory[a]) :
                      \/ a \in overlay.attributes /\ k = last'.total_elements + 1
                      \/ overlay'.memory[a][k] = overlay.memory[a][k]]_vars

\* index 1 of three or more was assigned after index 0 had been assigned another
\* record, with a0 not attached
C22_Witness ==
    /\ last.op = "assign"
    /\ last.total_elements = 1
    /\ OverlayLen >= 3
    /\ "id" \in overlay.attributes
    /\ "a0" \notin overlay.attributes
    /\ last.value.id = 20
    /\ overlay.memory["id"][1] = 21
    /\ overlay.memory["id"][3] = InitialCell("id", 3)

\* C23: overlay positions are path-independent: for every i in [0, n],
\* begin() + i equals end() - n + i, lies at distance i from begin() and
\* n - i from end(), and is reached by i pre-increments and by i
\* post-increments from begin(); a post-increment or post-decrement returns
\* the old position, a pre-increment the new one; for i < n the record read
\* through begin() + i, through range iteration and through [i] is the same.
C23_PathIndependent ==
    last.op = "iterator" =>
        LET i == last.total_elements
            r == last.value
        IN  /\ r.plus = r.minus
            /\ r.distance_begin = i
            /\ r.distance_end = OverlayLen - i
            /\ r.pre = r.plus
            /\ r.post = r.plus
            /\ r.post_returned = r.plus
            /\ r.post_decrement_returned = r.plus
            /\ r.pre_returned = Advance(r.plus, 1)
            /\ r.pre_decrement_returned = Advance(r.plus, 0 - 1)
            /\ i < OverlayLen =>
                  /\ r.records.through_iterator = Expected(i)
                  /\ r.records.through_iteration = Expected(i)
                  /\ r.records.through_index = Expected(i)

\* position 2 of a sequence of at least three records, after a write
C23_Witness ==
    /\ last.op = "iterator"
    /\ last.total_elements = 2
    /\ OverlayLen >= 3
    /\ overlay.memory["id"][3] = 20
    /\ last.value.records.through_iteration.id = 20

C23_WitnessEnd ==
    /\ last.op = "iterator"
    /\ OverlayLen = 3
    /\ last.total_elements = OverlayLen

C24_WitnessAll ==
    /\ last.op = "get_columnar_buffer_span_all_scenarios"
    /\ overlay.batch_size = 2
    /\ overlay.elements_per_scenario = 2
    /\ Len(last.value) = 2
====
